---- MODULE Spec2Model ----
(***************************************************************************)
(* Model of the AST node interning table (chb/ast/ASTSerializer.py) and of *)
(* the ARM opcode handlers that lift an instruction into a pair of         *)
(* low-level / high-level instruction lists (chb/arm/opcodes/*.py).        *)
(***************************************************************************)
EXTENDS FiniteSets, Integers, Sequences, TLC

VARIABLES
    table,      \* ASTSerializer._table: [keytable, indextable, next]
    ret,        \* value returned by the last ASTSerializer.add call (0: none)
    op,         \* the last table operation: "init", "add" or "records"
    call,       \* the arguments <<tags, args, descr>> of the last add call
    calls,      \* history: the add calls made, as <<tags, args, identity>>
    order,      \* history: [key, node] of each first encounter, in order
    snapshot,   \* the list returned by the last records() call
    tables,     \* the _table of each of several serializers (<<>>: unused)
    instr,      \* the decoded instruction being lifted
    xdata,      \* its fact bundle (InstrXData)
    resolver,   \* behaviour of the variable/expression resolver on it
    astree,     \* the provenance tables of the ASTInterface
    result,     \* outcome of the lift: status, hl and ll lists, log
    pc          \* "ready" before the lift, "done" after it

tvars == <<table, ret, op, call, calls, order, snapshot, tables>>

lvars == <<instr, xdata, resolver, astree, result, pc>>

vars == <<table, ret, op, call, calls, order, snapshot, tables,
          instr, xdata, resolver, astree, result, pc>>

(***************************************************************************)
(* Bounds                                                                  *)
(***************************************************************************)
\* largest number of distinct nodes interned in one run
MaxNodes == 2

\* registers are numbered 0..MaxReg
MaxReg == 2

(***************************************************************************)
(* Strings and keys                                                        *)
(***************************************************************************)
RECURSIVE Join(_)
\* ",".join(strs)
Join(strs) ==
    IF Len(strs) = 0 THEN ""
    ELSE IF Len(strs) = 1 THEN strs[1]
    ELSE strs[1] \o "," \o Join(Tail(strs))

\* [str(i) for i in args]
StrArgs(args) == [i \in 1..Len(args) |-> ToString(args[i])]

\* get_key(tags, args)
get_key(tags, args) == <<Join(tags), Join(StrArgs(args))>>

(***************************************************************************)
(* ASTNodeDictionary                                                       *)
(***************************************************************************)
EmptyFcn == [x \in {} |-> 0]

\* ASTNodeDictionary.__init__
NewDictionary == [keytable |-> EmptyFcn, indextable |-> EmptyFcn, next |-> 1]

Extend(f, x, v) == [y \in (DOMAIN f) \cup {x} |-> IF y = x THEN v ELSE f[y]]

\* add without the membership test: every call allocates
DictAddAlways(t, key, node) ==
    [table |-> [keytable   |-> Extend(t.keytable, key, t.next),
                indextable |-> Extend(t.indextable, t.next, node),
                next       |-> t.next + 1],
     ret   |-> t.next]

\* add that refreshes the stored record of a key already present
DictAddOverwrite(t, key, node) ==
    IF key \in DOMAIN t.keytable
    THEN [table |-> [t EXCEPT !.indextable =
                         Extend(t.indextable, t.keytable[key], node)],
          ret   |-> t.keytable[key]]
    ELSE DictAddAlways(t, key, node)

\* add that advances the counter by two
DictAddSkip(t, key, node) ==
    IF key \in DOMAIN t.keytable
    THEN [table |-> t, ret |-> t.keytable[key]]
    ELSE [table |-> [keytable   |-> Extend(t.keytable, key, t.next),
                     indextable |-> Extend(t.indextable, t.next, node),
                     next       |-> t.next + 2],
          ret   |-> t.next]

\* ASTNodeDictionary.add(key, node): the table after the call and the
\* identity returned
DictAdd(t, key, node) ==
    IF key \in DOMAIN t.keytable
    THEN [table |-> t, ret |-> t.keytable[key]]
    ELSE [table |-> [keytable   |-> Extend(t.keytable, key, t.next),
                     indextable |-> Extend(t.indextable, t.next, node),
                     next       |-> t.next + 1],
          ret   |-> t.next]

Min(S) == CHOOSE x \in S : \A y \in S : x <= y

RECURSIVE Sorted(_)
\* sorted(ids): the members of a finite set of integers, ascending
Sorted(S) == IF S = {} THEN <<>> ELSE <<Min(S)>> \o Sorted(S \ {Min(S)})

\* records() that numbers the records from 0
DictRecordsZeroBased(t) ==
    LET ids   == Sorted(DOMAIN t.indextable)
        newit == [i \in DOMAIN t.indextable |->
                      [t.indextable[i] EXCEPT !.id = i - 1]]
    IN  [table |-> [t EXCEPT !.indextable = newit],
         ret   |-> [k \in 1..Len(ids) |-> newit[ids[k]]]]

\* ASTNodeDictionary.records(): every stored record gets its "id" field
\* (in place), and the records are returned in the order of sorted ids
DictRecords(t) ==
    LET ids   == Sorted(DOMAIN t.indextable)
        newit == [i \in DOMAIN t.indextable |->
                      [t.indextable[i] EXCEPT !.id = i]]
    IN  [table |-> [t EXCEPT !.indextable = newit],
         ret   |-> [k \in 1..Len(ids) |-> newit[ids[k]]]]

\* the dict built by index_varinfo or index_string_constant (tag, name or
\* cstr, optional descr) after ASTSerializer.add has set node["args"];
\* id = 0 stands for "no id field yet"
Node(tags, args, descr) ==
    [tag |-> tags[1], name |-> tags[2], args |-> args, descr |-> descr,
     id |-> 0]

\* ASTSerializer.add(tags, args, node)
SerializerAdd(t, tags, args, descr) ==
    DictAdd(t, get_key(tags, args), Node(tags, args, descr))

(***************************************************************************)
(* Inputs of the interning table                                           *)
(***************************************************************************)
\* tag lists as built by index_string_constant (tag, cstr [, string_address])
\* and index_varinfo (tag, vname)
TagLists == { <<"str", "a,b">>, <<"str", "a", "b">>, <<"varinfo", "a">> }

\* argument lists (child identities, -1 for an absent child)
ArgLists == { <<>>, <<1, 2>> }

\* the optional description of a variable-info ("" when absent)
Descrs == { "", "d" }

(***************************************************************************)
(* The interning table as a state machine                                  *)
(***************************************************************************)
TableFresh ==
    /\ table = NewDictionary
    /\ ret = 0
    /\ op = "init"
    /\ call = <<>>
    /\ calls = {}
    /\ order = <<>>
    /\ snapshot = <<>>
    /\ tables = <<>>

\* no instruction is being lifted
LiftIdle ==
    /\ instr = <<>>
    /\ xdata = <<>>
    /\ resolver = <<>>
    /\ astree = <<>>
    /\ result = <<>>
    /\ pc = "idle"

InitTable == TableFresh /\ LiftIdle

\* one call of ASTSerializer.add
Add(tags, args, descr) ==
    LET r   == SerializerAdd(table, tags, args, descr)
        key == get_key(tags, args)
    IN  /\ r.table.next <= MaxNodes + 1
        /\ table' = r.table
        /\ ret' = r.ret
        /\ op' = "add"
        /\ call' = <<tags, args, descr>>
        /\ calls' = calls \cup { <<tags, args, r.ret>> }
        /\ order' = IF \E k \in 1..Len(order) : order[k].key = key
                    THEN order
                    ELSE Append(order, [key  |-> key,
                                        node |-> Node(tags, args, descr)])
        /\ UNCHANGED <<snapshot, tables>>
        /\ UNCHANGED lvars

\* one call of ASTSerializer.records
Records ==
    LET r == DictRecords(table)
    IN  /\ table' = r.table
        /\ snapshot' = r.ret
        /\ op' = "records"
        /\ UNCHANGED <<ret, call, calls, order, tables>>
        /\ UNCHANGED lvars

NextTable ==
    \/ \E tags \in TagLists, args \in ArgLists, descr \in Descrs :
           Add(tags, args, descr)
    \/ Records

SpecTable == InitTable /\ [][NextTable]_vars

(***************************************************************************)
(* Properties of the interning table                                       *)
(***************************************************************************)
KeyOf(c) == get_key(c[1], c[2])

KeysAdded == { KeyOf(c) : c \in calls }

NumRecords(t) == Cardinality(DOMAIN t.indextable)

\* the stored record without the "id" annotation of records()
Payload(node) == [node EXCEPT !.id = 0]

C1_State ==
    /\ \A c1, c2 \in calls : KeyOf(c1) = KeyOf(c2) => c1[3] = c2[3]
    /\ NumRecords(table) = Cardinality(KeysAdded)

C1_Step ==
    op' = "add" =>
        NumRecords(table') = NumRecords(table)
            + (IF KeyOf(call') \in KeysAdded THEN 0 ELSE 1)

\* C1: add is idempotent per key: two add calls with the same key return the
\* same identity, the number of stored records equals the number of distinct
\* keys added so far, and an add grows the table by one record when its key
\* is new and by none when its key was added before.
C1_DedupIdempotent == [](C1_State) /\ [][C1_Step]_vars

\* a key has been added a second time, after a later key was interned
C1_Witness == op = "add" /\ ret = 1 /\ table.next = 3

C2_State ==
    /\ DOMAIN table.indextable = 1..(table.next - 1)
    /\ { table.keytable[k] : k \in DOMAIN table.keytable } = 1..(table.next - 1)
    /\ \A k1, k2 \in DOMAIN table.keytable :
           table.keytable[k1] = table.keytable[k2] => k1 = k2
    /\ Len(order) = table.next - 1
    /\ \A k \in 1..Len(order) : table.keytable[order[k].key] = k

C2_Step ==
    \A k \in DOMAIN table.keytable :
        k \in DOMAIN table'.keytable /\ table'.keytable[k] = table.keytable[k]

\* C2: the identities assigned are exactly 1..next-1: the k-th distinct key in
\* first-encounter order has identity k, distinct keys have distinct
\* identities, a key keeps its identity for ever, and no identity below the
\* next-free counter is missing.
C2_IdentityMonotone == [](C2_State) /\ [][C2_Step]_vars

\* two distinct keys have been interned
C2_Witness == Len(order) >= 2 /\ table.next >= 3

C3_Step ==
    (op' = "add" /\ KeyOf(call') \in DOMAIN table.keytable) => table' = table

C3_State ==
    \A k \in 1..Len(order) :
        /\ k \in DOMAIN table.indextable
        /\ Payload(table.indextable[k]) = order[k].node

\* C3: an add whose key is already present leaves the key map, the counter
\* and the stored records unchanged, so the record stored under an identity
\* is always the one supplied by the first add of its key.
C3_AddExistingFrame == [](C3_State) /\ [][C3_Step]_vars

\* the last add supplied, for a key already present, a node whose
\* description differs from the stored one
C3_Witness ==
    /\ op = "add"
    /\ Len(order) >= ret /\ ret >= 1
    /\ order[ret].node.descr # call[3]

\* C4: two add calls through ASTSerializer.add with different (tags, args)
\* pairs return different identities.
C4_KeyInjective ==
    \A c1, c2 \in calls :
        (c1[1] # c2[1] \/ c1[2] # c2[2]) => c1[3] # c2[3]

\* C5: records() returns one record per interned identity, in strictly
\* increasing identity order, each carrying in "id" the identity under which
\* it was interned.
C5_RecordsSnapshot ==
    op = "records" =>
        /\ Len(snapshot) = Cardinality(DOMAIN table.keytable)
        /\ { snapshot[k].id : k \in 1..Len(snapshot) }
               = { table.keytable[k] : k \in DOMAIN table.keytable }
        /\ \A k \in 1..(Len(snapshot) - 1) : snapshot[k].id < snapshot[k+1].id
        /\ \A k \in 1..Len(snapshot) :
               /\ snapshot[k].id \in 1..Len(order)
               /\ Payload(snapshot[k]) = order[snapshot[k].id].node

\* records() has returned at least two records
C5_Witness == op = "records" /\ Len(snapshot) >= 2

(***************************************************************************)
(* Instructions, operands and fact bundles                                 *)
(***************************************************************************)
Regs == 0..MaxReg

\* the members of a register-list operand, in ascending register number
RegisterList(S) == Sorted(S)

\* the address of the instruction being lifted
iaddr == "0x1000"

\* Python-style (0-based) indexing of a list
InRange(s, i) == i >= 0 /\ i < Len(s)

At(s, i) == s[i + 1]

\* s[1:]
Slice1(s) == IF Len(s) = 0 THEN <<>> ELSE Tail(s)

\* the k-th (0-based) fact of a sequence of the bundle; facts are opaque
\* and told apart by their role and position
Fact(role, k) == <<role, k>>

Facts(role, n) == [k \in 1..n |-> Fact(role, k - 1)]

\* a bundle with the given number of variables, expressions, reaching
\* definitions, def-use sets and high def-use sets; it carries no branch
\* conditions, no call target, no argument count (-1 stands for None), no
\* return expression and the tag "a:"
Bundle(ok, nv, nx, nr, nu, nh) ==
    [ok                |-> ok,
     vars              |-> Facts("var", nv),
     xprs              |-> Facts("xpr", nx),
     reachingdefs      |-> Facts("rdef", nr),
     defuses           |-> Facts("uses", nu),
     defuseshigh       |-> Facts("useshigh", nh),
     tags              |-> <<"a:">>,
     branch_conditions |-> FALSE,
     call_target       |-> FALSE,
     argcount          |-> -1,
     return_xpr        |-> FALSE]

Shorts == {"none", "vars", "xprs", "rdefs", "uses", "useshigh"}

\* the LDM layout vv[n]xxxx[n]rr[n]dd[n]hh[n] for n registers, with one of
\* the sequences possibly one fact short
LDMBundle(ok, n, short) ==
    Bundle(ok,
           IF short = "vars" THEN n ELSE n + 1,
           IF short = "xprs" THEN n + 2 ELSE n + 3,
           IF short = "rdefs" THEN n ELSE n + 1,
           IF short = "uses" THEN n ELSE n + 1,
           IF short = "useshigh" THEN n ELSE n + 1)

\* the UBFX layout vxxrdh, with one of the sequences possibly one fact short
UBFXBundle(ok, short) ==
    Bundle(ok,
           IF short = "vars" THEN 0 ELSE 1,
           IF short = "xprs" THEN 1 ELSE 2,
           IF short = "rdefs" THEN 0 ELSE 1,
           IF short = "uses" THEN 0 ELSE 1,
           IF short = "useshigh" THEN 0 ELSE 1)

\* the CBZ layout: nx expressions (six when complete: operand, true and
\* false condition, their simplified forms, target) and nr reaching
\* definitions, with or without branch conditions
CBZBundle(ok, bc, nx, nr) ==
    [Bundle(ok, 0, nx, nr, 0, 0) EXCEPT !.branch_conditions = bc]

\* the BX layout a:x with nx expressions, the given tags, and the
\* presence of branch conditions, a call target (with argument count ac,
\* -1 when unknown) and a return expression
BXBundle(ok, tags, bc, ct, ac, rx, nx) ==
    [Bundle(ok, 0, nx, 0, 0, 0) EXCEPT !.tags = tags,
                                       !.branch_conditions = bc,
                                       !.call_target = ct,
                                       !.argcount = ac,
                                       !.return_xpr = rx]

\* the PLD layout a:xx with nx expressions
PLDBundle(ok, nx) == Bundle(ok, 0, nx, 0, 0, 0)

\* ARMOpcodeXData.is_ok: the validity flag of the bundle
is_ok(xd) == xd.ok

\* InstrXData.has_branch_conditions
has_branch_conditions(xd) == xd.branch_conditions

\* InstrXData.has_call_target
has_call_target(xd) == xd.call_target

\* InstrXData.has_return_xpr
has_return_xpr(xd) == xd.return_xpr

\* ARMLoadMultipleIncrementAfterXData.regcount
regcount(xd) == Len(xd.vars) - 1

\* ARMLoadMultipleIncrementAfterXData.lhsvars
lhsvars(xd) == [i \in 1..regcount(xd) |-> At(xd.vars, i)]

\* ARMLoadMultipleIncrementAfterXData.rhsexprs
rhsexprs(xd) == [i \in 1..regcount(xd) |-> At(xd.xprs, i)]

\* memrdefs = xdata.reachingdefs[1:]
memrdefs(xd) == Slice1(xd.reachingdefs)

\* reguses without the shift past the base entry
reguses_unshifted(xd) == xd.defuses

\* reguses = xdata.defuses[1:]
reguses(xd) == Slice1(xd.defuses)

\* reguseshigh = xdata.defuseshigh[1:]
reguseshigh(xd) == Slice1(xd.defuseshigh)

\* ARMOpcodeXData.get_base_update_xpr: the simplified updated base
get_base_update_xpr(xd) == At(xd.xprs, 2)

(***************************************************************************)
(* AST fragments and the provenance tables of the ASTInterface             *)
(***************************************************************************)
mk_integer_constant(c) == <<"const", c>>

mk_binary_op(o, e1, e2) == <<o, e1, e2>>

mk_variable_lval(r) == <<"lval", r>>

mk_memref_expr(addr) == <<"memref", addr>>

\* ARMOperand.ast_lvalue / ast_rvalue of a register operand
ast_lvalue(r) == <<"lval", r>>

ast_rvalue(r) == <<"lvalexpr", r>>

\* the fragments the resolver builds for a recovered variable / expression
HlLval(v) == <<"hl_lval", v>>

HlExpr(x) == <<"hl_expr", x>>

\* XU.xvariable_to_ast_lval(s) / XU.xxpr_to_ast_def_expr(s) raise CHBError
lval_fails(rs, v) == v = Fact("var", rs.badvar)

expr_fails(rs, x) == x = Fact("xpr", rs.badxpr)

NewASTree ==
    [next_instrid      |-> 1,
     instr_mapping     |-> <<>>,
     instr_address     |-> <<>>,
     expr_mapping      |-> <<>>,
     lval_mapping      |-> <<>>,
     expr_reachingdefs |-> <<>>,
     lval_defuses      |-> <<>>,
     lval_defuses_high |-> <<>>,
     condition_address |-> <<>>]

\* astree.mk_assign: a new assignment instruction with a fresh instrid
mk_assign(ast, lhs, rhs) ==
    [instrid |-> ast.next_instrid, lhs |-> lhs, rhs |-> rhs, iaddr |-> iaddr]

new_instrid(ast) == [ast EXCEPT !.next_instrid = @ + 1]

add_instr_mapping(ast, hl, ll) ==
    [ast EXCEPT !.instr_mapping = Append(@, <<hl.instrid, ll.instrid>>)]

add_instr_address(ast, i, addrs) ==
    [ast EXCEPT !.instr_address = Append(@, <<i.instrid, addrs>>)]

add_expr_mapping(ast, hl, ll) ==
    [ast EXCEPT !.expr_mapping = Append(@, <<hl, ll>>)]

add_lval_mapping(ast, hl, ll) ==
    [ast EXCEPT !.lval_mapping = Append(@, <<hl, ll>>)]

add_expr_reachingdefs(ast, e, rdefs) ==
    [ast EXCEPT !.expr_reachingdefs = Append(@, <<e, rdefs>>)]

add_lval_defuses(ast, lv, uses) ==
    [ast EXCEPT !.lval_defuses = Append(@, <<lv, uses>>)]

add_lval_defuses_high(ast, lv, uses) ==
    [ast EXCEPT !.lval_defuses_high = Append(@, <<lv, uses>>)]

(***************************************************************************)
(* LDM: ARMLoadMultipleIncrementAfter.ast_prov                             *)
(***************************************************************************)
\* the running state of a lift: the two instruction lists built so far, the
\* provenance tables, the log and the running base offset
StartLift(ast) ==
    [status |-> "ok", hl |-> <<>>, ll |-> <<>>, astree |-> ast,
     log |-> <<>>, base_offset |-> 0]

\* an exception leaves the handler: no lists are returned
Raise(st, exc) == [st EXCEPT !.status = exc, !.hl = <<>>, !.ll = <<>>]

\* hl_instrs.insert(0, instr)
hl_prepend(l, i) == <<i>> \o l

\* hl_instrs.append(instr)
hl_append(l, i) == Append(l, i)

\* ll_instrs.append(instr)
ll_append(l, i) == Append(l, i)

\* base_offset += 1
next_offset_bytewise(base_offset) == base_offset + 1

\* base_offset += 4
next_offset(base_offset) == base_offset + 4

\* baseincr = regcount
base_increment_unscaled(xd) == regcount(xd)

\* baseincr = 4 * xd.regcount
base_increment(xd) == 4 * regcount(xd)

\* the facts read through the accessors before the loop: baselhs, lhsvars,
\* baserhs, rhsexprs
ldm_accessors_in_range(xd) ==
    /\ InRange(xd.vars, 0)
    /\ InRange(xd.xprs, 0)
    /\ \A i \in 1..regcount(xd) : InRange(xd.xprs, i)

\* the facts indexed directly before the loop: baserdef, baseuses,
\* baseuseshigh
ldm_base_facts_in_range(xd) ==
    /\ InRange(xd.reachingdefs, 0)
    /\ InRange(xd.defuses, 0)
    /\ InRange(xd.defuseshigh, 0)

\* one iteration of "for (i, r) in enumerate(registers)"
ldm_iteration(ins, xd, rs, i, st) ==
    LET r         == At(ins.registers, i)
        addr      == mk_binary_op("plus", ast_rvalue(ins.base),
                                  mk_integer_constant(st.base_offset))
        ll_lhs    == mk_variable_lval(r)
        ll_rhs    == mk_memref_expr(addr)
        ll_assign == mk_assign(st.astree, ll_lhs, ll_rhs)
        t1        == [st EXCEPT !.astree = new_instrid(@),
                                !.ll = ll_append(@, ll_assign)]
    IN
    IF ~(InRange(lhsvars(xd), i) /\ InRange(rhsexprs(xd), i))
    THEN Raise(t1, "IndexError")
    ELSE
    LET lhs == At(lhsvars(xd), i)
        rhs == At(rhsexprs(xd), i)
    IN
    IF lval_fails(rs, lhs) \/ expr_fails(rs, rhs)
    THEN Raise(t1, "CHBError")
    ELSE
    LET hl_lhs    == HlLval(lhs)
        hl_rhs    == HlExpr(rhs)
        hl_assign == mk_assign(t1.astree, hl_lhs, hl_rhs)
        a1 == new_instrid(t1.astree)
        a2 == add_instr_mapping(a1, hl_assign, ll_assign)
        a3 == add_instr_address(a2, hl_assign, <<iaddr>>)
        a4 == add_expr_mapping(a3, hl_rhs, ll_rhs)
        a5 == add_lval_mapping(a4, hl_lhs, ll_lhs)
        t2 == [t1 EXCEPT !.astree = a5, !.hl = hl_append(@, hl_assign)]
    IN
    IF ~InRange(memrdefs(xd), i) THEN Raise(t2, "IndexError")
    ELSE
    LET a6 == add_expr_reachingdefs(a5, ll_rhs, <<At(memrdefs(xd), i)>>)
    IN
    IF ~InRange(reguses(xd), i)
    THEN Raise([t2 EXCEPT !.astree = a6], "IndexError")
    ELSE
    LET a7 == add_lval_defuses(a6, hl_lhs, At(reguses(xd), i))
    IN
    IF ~InRange(reguseshigh(xd), i)
    THEN Raise([t2 EXCEPT !.astree = a7], "IndexError")
    ELSE
    LET a8 == add_lval_defuses_high(a7, hl_lhs, At(reguseshigh(xd), i))
    IN  [t2 EXCEPT !.astree = a8,
                   !.base_offset = next_offset(@)]

RECURSIVE ldm_loop(_, _, _, _, _)
\* the iterations i, i+1, ... of the loop over the register list
ldm_loop(ins, xd, rs, i, st) ==
    IF i >= Len(ins.registers) \/ st.status # "ok"
    THEN st
    ELSE ldm_loop(ins, xd, rs, i + 1, ldm_iteration(ins, xd, rs, i, st))

\* the "if self.writeback:" block
ldm_writeback(ins, xd, rs, st) ==
    LET baseincr       == base_increment(xd)
        baseincr_c     == mk_integer_constant(baseincr)
        ll_base_lhs    == ast_lvalue(ins.base)
        ll_base_rhs    == mk_binary_op("plus", ast_rvalue(ins.base), baseincr_c)
        ll_base_assign == mk_assign(st.astree, ll_base_lhs, ll_base_rhs)
        t1 == [st EXCEPT !.astree = new_instrid(@),
                         !.ll = ll_append(@, ll_base_assign)]
    IN
    IF ~InRange(xd.xprs, 2) THEN Raise(t1, "CHBError")
    ELSE
    LET baseresult == get_base_update_xpr(xd)
        baselhs    == At(xd.vars, 0)
    IN
    IF lval_fails(rs, baselhs) \/ expr_fails(rs, baseresult)
    THEN Raise(t1, "CHBError")
    ELSE
    LET hl_base_lhs    == HlLval(baselhs)
        hl_base_rhs    == HlExpr(baseresult)
        hl_base_assign == mk_assign(t1.astree, hl_base_lhs, hl_base_rhs)
        a1 == new_instrid(t1.astree)
        a2 == add_instr_mapping(a1, hl_base_assign, ll_base_assign)
        a3 == add_instr_address(a2, hl_base_assign, <<iaddr>>)
        a4 == add_expr_mapping(a3, hl_base_rhs, ll_base_rhs)
        a5 == add_lval_mapping(a4, hl_base_lhs, ll_base_lhs)
        a6 == add_expr_reachingdefs(a5, ll_base_rhs,
                                    <<At(xd.reachingdefs, 0)>>)
        a7 == add_lval_defuses(a6, hl_base_lhs, At(xd.defuses, 0))
        a8 == add_lval_defuses_high(a7, hl_base_lhs, At(xd.defuseshigh, 0))
    IN  [t1 EXCEPT !.astree = a8, !.hl = hl_append(@, hl_base_assign)]

\* ARMLoadMultipleIncrementAfter.ast_prov
ldm_ast_prov(ins, xd, rs, ast) ==
    LET st0 == StartLift(ast)
    IN
    IF ~is_ok(xd)
    THEN [st0 EXCEPT !.log = Append(@, <<"error", iaddr>>)]
    ELSE IF ~ldm_accessors_in_range(xd)
    THEN Raise(st0, "CHBError")
    ELSE IF ~ldm_base_facts_in_range(xd)
    THEN Raise(st0, "IndexError")
    ELSE
    LET st1 == ldm_loop(ins, xd, rs, 0, st0)
    IN  IF st1.status = "ok" /\ ins.writeback
        THEN ldm_writeback(ins, xd, rs, st1)
        ELSE st1

(***************************************************************************)
(* UBFX: ARMUnsignedExtractBitField.ast_prov                               *)
(***************************************************************************)
\* ARMOpcode.ast_variable_intro: the shared emission of one assignment pair
ast_variable_intro(st, hl_lhs, hl_rhs, ll_lhs, ll_rhs, hl_rdefs, ll_rdefs, defuses, defuseshigh) ==
    LET ll_assign == mk_assign(st.astree, ll_lhs, ll_rhs)
        a0        == new_instrid(st.astree)
        hl_assign == mk_assign(a0, hl_lhs, hl_rhs)
        a1 == new_instrid(a0)
        a2 == add_instr_mapping(a1, hl_assign, ll_assign)
        a3 == add_instr_address(a2, hl_assign, <<iaddr>>)
        a4 == add_expr_mapping(a3, hl_rhs, ll_rhs)
        a5 == add_lval_mapping(a4, hl_lhs, ll_lhs)
        a6 == add_expr_reachingdefs(a5, hl_rhs, hl_rdefs)
        a7 == add_expr_reachingdefs(a6, ll_rhs, ll_rdefs)
        a8 == add_lval_defuses(a7, hl_lhs, defuses)
        a9 == add_lval_defuses_high(a8, hl_lhs, defuseshigh)
    IN  [st EXCEPT !.astree = a9,
                   !.hl = <<hl_assign>>,
                   !.ll = <<ll_assign>>]

\* XU.xvariable_to_ast_lvals: the fragments of a recovered variable
xvariable_to_ast_lvals(rs, v) ==
    IF rs.nlhs = 0 THEN <<>>
    ELSE <<HlLval(v)>> \o [k \in 1..(rs.nlhs - 1) |-> <<"hl_lval_part", v, k>>]

\* XU.xxpr_to_ast_def_exprs: the fragments of a recovered expression
xxpr_to_ast_def_exprs(rs, x) ==
    IF rs.nrhs = 0 THEN <<>>
    ELSE <<HlExpr(x)>> \o [k \in 1..(rs.nrhs - 1) |-> <<"hl_expr_part", x, k>>]

\* a fallback that recovers no high-level rvalue
ubfx_fallback_rhss_none(ll_rhs) == <<>>

\* except UF.CHBError: hl_rhss = [ll_rhs]
ubfx_fallback_rhss(ll_rhs) == <<ll_rhs>>

\* an emission test that accepts several fragments and keeps the first
ubfx_single_first(hl_rhss, hl_lhss) == Len(hl_rhss) >= 1 /\ Len(hl_lhss) >= 1

\* if len(hl_rhss) == 1 and len(hl_lhss) == 1
ubfx_single(hl_rhss, hl_lhss) == Len(hl_rhss) = 1 /\ Len(hl_lhss) = 1

\* ARMUnsignedExtractBitField.ast_prov
ubfx_ast_prov(ins, xd, rs, ast) ==
    LET st0 == StartLift(ast)
    IN
    IF ~(InRange(xd.vars, 0) /\ InRange(xd.xprs, 1))
    THEN Raise(st0, "IndexError")
    ELSE
    LET lhs    == At(xd.vars, 0)
        rhs    == At(xd.xprs, 1)
        rdefs  == xd.reachingdefs
        ll_rhs == ast_rvalue(ins.base)
        ll_lhs == ast_lvalue(ins.rd)
    IN
    IF lval_fails(rs, lhs) THEN Raise(st0, "CHBError")
    ELSE
    LET hl_lhss == xvariable_to_ast_lvals(rs, lhs)
        failed  == expr_fails(rs, rhs)
        hl_rhss == IF failed THEN ubfx_fallback_rhss(ll_rhs)
                   ELSE xxpr_to_ast_def_exprs(rs, rhs)
        st1     == IF failed
                   THEN [st0 EXCEPT !.log = Append(@, <<"error", iaddr>>)]
                   ELSE st0
    IN
    IF ubfx_single(hl_rhss, hl_lhss)
    THEN IF ~(/\ InRange(rdefs, 0)
              /\ InRange(xd.defuses, 0)
              /\ InRange(xd.defuseshigh, 0))
         THEN Raise(st1, "IndexError")
         ELSE ast_variable_intro(st1, hl_lhss[1], hl_rhss[1], ll_lhs, ll_rhs,
                                 Slice1(rdefs), <<At(rdefs, 0)>>,
                                 At(xd.defuses, 0),
                                 At(xd.defuseshigh, 0))
    ELSE Raise(st1, "CHBError")

(***************************************************************************)
(* Annotations                                                             *)
(***************************************************************************)
\* str(fact): the printed form of a recovered variable or expression
str(f) == f[1] \o ToString(f[2])

RECURSIVE JoinSep(_, _)
\* sep.join(strs)
JoinSep(sep, strs) ==
    IF Len(strs) = 0 THEN ""
    ELSE IF Len(strs) = 1 THEN strs[1]
    ELSE strs[1] \o sep \o JoinSep(sep, Tail(strs))

\* the outcome of an annotation call: a text, or an exception
Text(t) == [status |-> "ok", text |-> t]

Raised(exc) == [status |-> exc, text |-> ""]

\* simplify_result(id1, id2, x1, x2): the expression, followed by its
\* simplified form when that prints differently
simplify_result(x, rx) ==
    IF str(x) = str(rx) THEN str(x) ELSE str(x) \o " (= " \o str(rx) \o ")"

\* ARMOpcodeXData.writeback_update: the printed base update, if any
writeback_update(ins, xd) ==
    IF ins.writeback /\ InRange(xd.vars, 0) /\ InRange(xd.xprs, 2)
    THEN "; " \o str(At(xd.vars, 0)) \o " := " \o str(get_base_update_xpr(xd))
    ELSE ""

\* zip(self.lhsvars, self.rhsexprs)
ldm_pairs(xd) == [i \in 1..regcount(xd) |-> <<lhsvars(xd)[i], rhsexprs(xd)[i]>>]

\* str(v) + " := " + str(x) for (x, v) in pairs
ldm_assigns(xd) ==
    [i \in 1..regcount(xd) |->
        LET x == ldm_pairs(xd)[i][1]
            v == ldm_pairs(xd)[i][2]
        IN  str(v) \o " := " \o str(x)]

\* ARMLoadMultipleIncrementAfter.annotation; the instruction is taken to
\* be unconditional
ldm_annotation(ins, xd) ==
    IF is_ok(xd)
    THEN IF ~ldm_accessors_in_range(xd) THEN Raised("CHBError")
         ELSE Text(JoinSep("; ", ldm_assigns(xd)) \o writeback_update(ins, xd))
    ELSE Text("Error value")

\* ARMCompareBranchZero.annotation
cbz_annotation(ins, xd) ==
    IF is_ok(xd)
    THEN IF ~(InRange(xd.xprs, 3) /\ InRange(xd.xprs, 5))
         THEN Raised("CHBError")
         ELSE Text("if " \o str(At(xd.xprs, 3))
                        \o " goto " \o str(At(xd.xprs, 5)))
    ELSE Text("Error value")

\* ARMUnsignedExtractBitField.annotation
ubfx_annotation(ins, xd) ==
    IF ~(InRange(xd.vars, 0) /\ InRange(xd.xprs, 1))
    THEN Raised("IndexError")
    ELSE Text(str(At(xd.vars, 0)) \o " := "
                  \o simplify_result(At(xd.xprs, 0), At(xd.xprs, 1)))

\* ARMPreloadData.annotation
pld_annotation(ins, xd) ==
    IF ~InRange(xd.xprs, 1) THEN Raised("IndexError")
    ELSE Text("Preload-data(" \o str(At(xd.xprs, 1)) \o ")")

(***************************************************************************)
(* CBZ: ARMCompareBranchZero                                               *)
(***************************************************************************)
\* the outcome of an ft_conditions call
Conds(cs, log) == [status |-> "ok", conds |-> cs, log |-> log]

CondsRaised(exc) == [status |-> exc, conds |-> <<>>, log |-> <<>>]

\* ARMCompareBranchZeroXData.tcond
tcond(xd) == At(xd.xprs, 3)

\* ARMCompareBranchZeroXData.fcond
fcond(xd) == At(xd.xprs, 4)

\* ft_conditions returning the pair in bundle order
cbz_ft_conditions_tf(xd) ==
    IF has_branch_conditions(xd)
    THEN IF is_ok(xd)
         THEN IF ~InRange(xd.xprs, 4) THEN CondsRaised("CHBError")
              ELSE Conds(<<tcond(xd), fcond(xd)>>, <<>>)
         ELSE Conds(<<>>, << <<"warning", "CBZ">> >>)
    ELSE Conds(<<>>, <<>>)

\* ft_conditions without the validity check
cbz_ft_conditions_unchecked(xd) ==
    IF has_branch_conditions(xd)
    THEN IF ~InRange(xd.xprs, 4) THEN CondsRaised("CHBError")
         ELSE Conds(<<fcond(xd), tcond(xd)>>, <<>>)
    ELSE Conds(<<>>, <<>>)

\* ARMCompareBranchZero.ft_conditions
cbz_ft_conditions(xd) ==
    IF has_branch_conditions(xd)
    THEN IF is_ok(xd)
         THEN IF ~InRange(xd.xprs, 4) THEN CondsRaised("CHBError")
              ELSE Conds(<<fcond(xd), tcond(xd)>>, <<>>)
         ELSE Conds(<<>>, << <<"warning", "CBZ">> >>)
    ELSE Conds(<<>>, <<>>)

\* astree.add_condition_address
add_condition_address(ast, c, addrs) ==
    [ast EXCEPT !.condition_address = Append(@, <<c, addrs>>)]

\* XU.xxpr_to_ast_def_expr: the single fragment of a recovered expression
xxpr_to_ast_def_expr(rs, x) == HlExpr(x)

\* the outcome of a condition derivation
CondResult(hl, ll, ast, log, reverse) ==
    [status |-> "ok", hl_cond |-> hl, ll_cond |-> ll, astree |-> ast,
     log |-> log, reverse |-> reverse]

CondRaised(exc, ast, log, reverse) ==
    [status |-> exc, hl_cond |-> <<>>, ll_cond |-> <<>>, astree |-> ast,
     log |-> log, reverse |-> reverse]

\* a low-level operand that receives every reaching definition
first_rdef_all(rdefs) == rdefs

\* [rdefs[0]]: the reaching definition of the tested register
first_rdef(rdefs) == <<At(rdefs, 0)>>

\* ARMCompareBranchZero.ast_condition_prov
cbz_ast_condition_prov(ins, xd, rs, ast, reverse) ==
    LET rdefs   == xd.reachingdefs
        ll_op   == ast_rvalue(ins.base)
        zero    == mk_integer_constant(0)
        ll_cond == IF reverse THEN mk_binary_op("ne", ll_op, zero)
                   ELSE mk_binary_op("eq", ll_op, zero)
        ft      == cbz_ft_conditions(xd)
        ftconds == ft.conds
    IN
    IF ft.status # "ok" THEN CondRaised(ft.status, ast, ft.log, reverse)
    ELSE
    IF Len(ftconds) = 2
    THEN LET condition == IF reverse THEN At(ftconds, 0) ELSE At(ftconds, 1)
         IN
         IF expr_fails(rs, condition)
         THEN CondRaised("CHBError", ast, ft.log, reverse)
         ELSE
         LET hl_cond == xxpr_to_ast_def_expr(rs, condition)
             a1 == add_expr_mapping(ast, hl_cond, ll_cond)
             a2 == add_expr_reachingdefs(a1, hl_cond, rdefs)
         IN
         IF ~InRange(rdefs, 0)
         THEN CondRaised("IndexError", a2, ft.log, reverse)
         ELSE
         LET a3 == add_expr_reachingdefs(a2, ll_op, first_rdef(rdefs))
             a4 == add_condition_address(a3, ll_cond, <<iaddr>>)
         IN  CondResult(hl_cond, ll_cond, a4, ft.log, reverse)
    ELSE CondResult(zero, zero, ast,
                    Append(ft.log, <<"error", iaddr>>), reverse)

(***************************************************************************)
(* BX: ARMBranchExchange                                                   *)
(***************************************************************************)
\* ft_conditions returning the pair in bundle order
bx_ft_conditions_unswapped(xd) ==
    IF has_branch_conditions(xd)
    THEN IF ~InRange(xd.xprs, 1) THEN CondsRaised("IndexError")
         ELSE Conds(<<At(xd.xprs, 0), At(xd.xprs, 1)>>, <<>>)
    ELSE Conds(<<>>, <<>>)

\* ARMBranchExchange.ft_conditions
bx_ft_conditions(xd) ==
    IF has_branch_conditions(xd)
    THEN IF ~InRange(xd.xprs, 1) THEN CondsRaised("IndexError")
         ELSE Conds(<<At(xd.xprs, 1), At(xd.xprs, 0)>>, <<>>)
    ELSE Conds(<<>>, <<>>)

\* ARMBranchExchange.is_call
is_call(xd) == Len(xd.tags) >= 2 /\ At(xd.tags, 1) = "call"

\* ARMBranchExchange.is_call_instruction
is_call_instruction(xd) == FALSE

\* the outcome of a call accessor: a value, or an exception
Value(v, log) == [status |-> "ok", value |-> v, log |-> log]

ValueRaised(exc) == [status |-> exc, value |-> <<>>, log |-> <<>>]

\* InstrXData.call_target
xdata_call_target(xd) == <<"target", xd.call_target>>

\* xdata.xprs[:n]
Prefix(s, n) == [k \in 1..(IF n < Len(s) THEN n ELSE Len(s)) |-> s[k]]

\* ARMBranchExchange.call_target
bx_call_target(xd) ==
    IF is_call_instruction(xd) THEN Value(xdata_call_target(xd), <<>>)
    ELSE ValueRaised("CHBError")

\* ARMBranchExchange.argument_count
bx_argument_count(xd) ==
    IF is_call_instruction(xd)
    THEN IF xd.argcount # -1 THEN Value(xd.argcount, <<>>)
         ELSE Value(0, << <<"warning", "argument count">> >>)
    ELSE ValueRaised("CHBError")

\* ARMBranchExchange.arguments
bx_arguments(xd) ==
    LET c == bx_argument_count(xd)
    IN  IF c.status # "ok" THEN ValueRaised(c.status)
        ELSE Value(Prefix(xd.xprs, c.value), c.log)

\* InstrXData.get_return_xxpr
get_return_xxpr(xd) == Fact("retxpr", 0)

\* ARMBranchExchangeXData.annotation
bx_xdata_annotation(xd) ==
    IF has_return_xpr(xd) THEN "return " \o str(get_return_xxpr(xd))
    ELSE "Not supported yet"

\* ARMBranchExchange.annotation; "xd.has_return_xpr" names the method
\* without calling it, and a method object is true
bx_annotation(ins, xd) ==
    IF is_call_instruction(xd) THEN Text("call")
    ELSE IF TRUE /\ is_ok(xd) THEN Text(bx_xdata_annotation(xd))
    ELSE IF is_ok(xd)
         THEN IF ~InRange(xd.xprs, 1) THEN Raised("CHBError")
              ELSE Text("goto " \o str(At(xd.xprs, 1)))
    ELSE Text("Error value")

\* astree.mk_nop_instruction
mk_nop_instruction(ast, name) ==
    [instrid |-> ast.next_instrid, nop |-> name, iaddr |-> iaddr]

\* astree.mk_call: the call instruction of the generic call-lifting path
mk_call(ast, name) ==
    [instrid |-> ast.next_instrid, call |-> name, iaddr |-> iaddr]

\* ARMCallOpcode.ast_call_prov: the generic call-lifting path
ast_call_prov(st, name) ==
    LET ll_call == mk_call(st.astree, name)
        a1      == new_instrid(st.astree)
        hl_call == mk_call(a1, name)
        a2      == new_instrid(a1)
        a3      == add_instr_mapping(a2, hl_call, ll_call)
        a4      == add_instr_address(a3, hl_call, <<iaddr>>)
    IN  [st EXCEPT !.astree = a4, !.hl = <<hl_call>>, !.ll = <<ll_call>>]

\* the lift without the address of the no-op instruction
bx_ast_prov_unrecorded(ins, xd, rs, ast) ==
    LET st0 == StartLift(ast)
    IN
    IF is_call_instruction(xd) /\ has_call_target(xd)
    THEN ast_call_prov(st0, "BranchExchange (BX)")
    ELSE LET nopinstr == mk_nop_instruction(ast, "BX")
             a1       == new_instrid(ast)
         IN  [st0 EXCEPT !.astree = a1, !.hl = <<>>, !.ll = <<nopinstr>>]

\* ARMBranchExchange.ast_prov
bx_ast_prov(ins, xd, rs, ast) ==
    LET st0 == StartLift(ast)
    IN
    IF is_call_instruction(xd) /\ has_call_target(xd)
    THEN ast_call_prov(st0, "BranchExchange (BX)")
    ELSE LET nopinstr == mk_nop_instruction(ast, "BX")
             a1       == new_instrid(ast)
             a2       == add_instr_address(a1, nopinstr, <<iaddr>>)
         IN  [st0 EXCEPT !.astree = a2, !.hl = <<>>, !.ll = <<nopinstr>>]

(***************************************************************************)
(* The lift of one instruction as a state machine                          *)
(***************************************************************************)
NonEmptyRegSets == (SUBSET Regs) \ {{}}

\* a decoded LDM instruction; the bundle follows the LDM layout for some
\* register count m, possibly one fact short in one sequence
InitLDM ==
    /\ \E wb \in BOOLEAN, b \in Regs, S \in NonEmptyRegSets :
           instr = [opc |-> "LDM", writeback |-> wb, base |-> b,
                    registers |-> RegisterList(S), rd |-> b]
    /\ \E ok \in BOOLEAN, m \in 0..(MaxReg + 2), short \in Shorts :
           xdata = LDMBundle(ok, m, short)
    /\ \E bv \in -1..(MaxReg + 1), bx \in -1..(MaxReg + 3) :
           resolver = [nlhs |-> 1, nrhs |-> 1, badvar |-> bv, badxpr |-> bx]

\* a decoded UBFX instruction
InitUBFX ==
    /\ \E d \in Regs, n \in Regs :
           instr = [opc |-> "UBFX", writeback |-> FALSE, base |-> n,
                    registers |-> <<>>, rd |-> d]
    /\ \E ok \in BOOLEAN, short \in Shorts :
           xdata = UBFXBundle(ok, short)
    /\ \E nl \in 0..2, nr \in 0..2, bv \in -1..0, bx \in -1..1 :
           resolver = [nlhs |-> nl, nrhs |-> nr, badvar |-> bv, badxpr |-> bx]

\* the register number of LR
LR == 14

NoResolver == [nlhs |-> 1, nrhs |-> 1, badvar |-> -1, badxpr |-> -1]

\* a decoded CBZ / CBNZ instruction on register n
InitCBZ ==
    /\ \E n \in Regs :
           instr = [opc |-> "CBZ", writeback |-> FALSE, base |-> n,
                    registers |-> <<>>, rd |-> n]
    /\ \E ok \in BOOLEAN, bc \in BOOLEAN, nx \in 3..6, nr \in 0..2 :
           xdata = CBZBundle(ok, bc, nx, nr)
    /\ \E bx \in {-1, 3, 4} :
           resolver = [NoResolver EXCEPT !.badxpr = bx]

BXTags == { <<"a:x">>, <<"a:x", "call">>, <<"a:x", "cc">> }

\* a decoded BX instruction on a target register
InitBX ==
    /\ \E t \in Regs \cup {LR} :
           instr = [opc |-> "BX", writeback |-> FALSE, base |-> t,
                    registers |-> <<>>, rd |-> t]
    /\ \E ok \in BOOLEAN, tags \in BXTags, bc \in BOOLEAN, ct \in BOOLEAN,
          ac \in -1..2, rx \in BOOLEAN, nx \in 0..2 :
           xdata = BXBundle(ok, tags, bc, ct, ac, rx, nx)
    /\ resolver = NoResolver

\* a decoded PLD / PLDW instruction
InitPLD ==
    /\ \E n \in Regs :
           instr = [opc |-> "PLD", writeback |-> FALSE, base |-> n,
                    registers |-> <<>>, rd |-> n]
    /\ \E ok \in BOOLEAN, nx \in 0..2 :
           xdata = PLDBundle(ok, nx)
    /\ resolver = NoResolver

InitLift ==
    /\ TableFresh
    /\ InitLDM \/ InitUBFX \/ InitCBZ \/ InitBX \/ InitPLD
    /\ astree = NewASTree
    /\ result = StartLift(NewASTree)
    /\ pc = "ready"

Finish(st) ==
    /\ result' = st
    /\ astree' = st.astree
    /\ pc' = "done"
    /\ UNCHANGED <<instr, xdata, resolver>>
    /\ UNCHANGED tvars

LiftLDM ==
    /\ pc = "ready"
    /\ instr.opc = "LDM"
    /\ Finish(ldm_ast_prov(instr, xdata, resolver, astree))

LiftUBFX ==
    /\ pc = "ready"
    /\ instr.opc = "UBFX"
    /\ Finish(ubfx_ast_prov(instr, xdata, resolver, astree))

LiftBX ==
    /\ pc = "ready"
    /\ instr.opc = "BX"
    /\ Finish(bx_ast_prov(instr, xdata, resolver, astree))

\* a call that leaves the tables of the tree alone
Return(r, newpc) ==
    /\ result' = r
    /\ pc' = newpc
    /\ UNCHANGED <<instr, xdata, resolver, astree>>
    /\ UNCHANGED tvars

CallTargetBX ==
    /\ pc = "ready"
    /\ instr.opc = "BX"
    /\ Return(bx_call_target(xdata), "call_target")

ArgumentCountBX ==
    /\ pc = "ready"
    /\ instr.opc = "BX"
    /\ Return(bx_argument_count(xdata), "argument_count")

ArgumentsBX ==
    /\ pc = "ready"
    /\ instr.opc = "BX"
    /\ Return(bx_arguments(xdata), "arguments")

AnnotateLDM ==
    /\ pc = "ready"
    /\ instr.opc = "LDM"
    /\ Return(ldm_annotation(instr, xdata), "annotated")

AnnotateCBZ ==
    /\ pc = "ready"
    /\ instr.opc = "CBZ"
    /\ Return(cbz_annotation(instr, xdata), "annotated")

AnnotateBX ==
    /\ pc = "ready"
    /\ instr.opc = "BX"
    /\ Return(bx_annotation(instr, xdata), "annotated")

AnnotateUBFX ==
    /\ pc = "ready"
    /\ instr.opc = "UBFX"
    /\ Return(ubfx_annotation(instr, xdata), "annotated")

AnnotatePLD ==
    /\ pc = "ready"
    /\ instr.opc = "PLD"
    /\ Return(pld_annotation(instr, xdata), "annotated")

FtConditionsCBZ ==
    /\ pc = "ready"
    /\ instr.opc = "CBZ"
    /\ Return(cbz_ft_conditions(xdata), "ftconds")

FtConditionsBX ==
    /\ pc = "ready"
    /\ instr.opc = "BX"
    /\ Return(bx_ft_conditions(xdata), "ftconds")

\* ast_condition_prov for the branch (reverse = FALSE) or its negation
ConditionCBZ ==
    /\ pc = "ready"
    /\ instr.opc = "CBZ"
    /\ \E reverse \in BOOLEAN :
           LET r == cbz_ast_condition_prov(instr, xdata, resolver, astree,
                                           reverse)
           IN  /\ result' = r
               /\ astree' = r.astree
               /\ pc' = "cond"
               /\ UNCHANGED <<instr, xdata, resolver>>
               /\ UNCHANGED tvars

NextLift ==
    \/ LiftLDM
    \/ LiftUBFX
    \/ LiftBX
    \/ CallTargetBX
    \/ ArgumentCountBX
    \/ ArgumentsBX
    \/ AnnotateLDM
    \/ AnnotateCBZ
    \/ AnnotateBX
    \/ AnnotateUBFX
    \/ AnnotatePLD
    \/ FtConditionsCBZ
    \/ FtConditionsBX
    \/ ConditionCBZ

SpecLift == InitLift /\ [][NextLift]_vars

(***************************************************************************)
(* Properties of the LDM and UBFX lifts                                    *)
(***************************************************************************)
NumRegs == Len(instr.registers)

\* the LDM lift has returned its two lists
LDMLifted == pc = "done" /\ instr.opc = "LDM" /\ result.status = "ok"

UBFXLifted == pc = "done" /\ instr.opc = "UBFX" /\ result.status = "ok"

\* the LDM lift has returned the lists built from a valid bundle
LDMValid == LDMLifted /\ is_ok(xdata)

\* the bundle has the base variable and one variable per listed register,
\* as the LDM class documents
DocumentedVars == Len(xdata.vars) = NumRegs + 1

\* the bundle is valid and has the layout the LDM class documents for the
\* register list of the instruction
DocumentedLDMBundle == xdata = LDMBundle(TRUE, NumRegs, "none")

Ascending(s) == \A i \in 1..(Len(s) - 1) : s[i] < s[i + 1]

\* the low-level load of the i-th (0-based) register
LowLevelLoad(i) ==
    [lhs |-> mk_variable_lval(At(instr.registers, i)),
     rhs |-> mk_memref_expr(mk_binary_op("plus", ast_rvalue(instr.base),
                                         mk_integer_constant(4 * i)))]

Sides(a) == [lhs |-> a.lhs, rhs |-> a.rhs]

IsBaseUpdate(a) == a.rhs[1] = "plus"

BaseUpdates(l) == { k \in 1..Len(l) : IsBaseUpdate(l[k]) }

IsHlBaseUpdate(a) == a.lhs = HlLval(At(xdata.vars, 0))

HlBaseUpdates(l) == { k \in 1..Len(l) : IsHlBaseUpdate(l[k]) }

InSeq(x, s) == \E k \in 1..Len(s) : s[k] = x

DestIndex(k) ==
    IF instr.opc = "LDM" /\ k <= NumRegs THEN k ELSE 0

\* C9: every high-level assignment emitted by the LDM lift or the UBFX lift
\* is mapped to exactly one low-level instruction of the same lift, has an
\* expression mapping for its right-hand side and an lvalue mapping for its
\* left-hand side, and carries the def-use and high def-use sets the bundle
\* supplies for its destination.
C9_Provenance ==
    (LDMLifted \/ UBFXLifted) =>
        \A k \in 1..Len(result.hl) :
            LET h == result.hl[k]
                targets == { j \in 1..Len(astree.instr_mapping) :
                                 astree.instr_mapping[j][1] = h.instrid }
            IN  /\ Cardinality(targets) = 1
                /\ \A j \in targets :
                       \E l \in 1..Len(result.ll) :
                           /\ result.ll[l].instrid = astree.instr_mapping[j][2]
                           /\ InSeq(<<h.rhs, result.ll[l].rhs>>,
                                    astree.expr_mapping)
                           /\ InSeq(<<h.lhs, result.ll[l].lhs>>,
                                    astree.lval_mapping)
                /\ InSeq(<<h.lhs, At(xdata.defuses, DestIndex(k))>>,
                         astree.lval_defuses)
                /\ InSeq(<<h.lhs, At(xdata.defuseshigh, DestIndex(k))>>,
                         astree.lval_defuses_high)
                /\ \A j \in 1..Len(astree.lval_defuses) :
                       astree.lval_defuses[j][1] = h.lhs =>
                           astree.lval_defuses[j][2]
                               = At(xdata.defuses, DestIndex(k))
                /\ \A j \in 1..Len(astree.lval_defuses_high) :
                       astree.lval_defuses_high[j][1] = h.lhs =>
                           astree.lval_defuses_high[j][2]
                               = At(xdata.defuseshigh, DestIndex(k))

\* an LDM with writeback has emitted at least two register loads and the
\* base update
C9_Witness ==
    LDMLifted /\ instr.writeback /\ Len(result.hl) >= 3

\* C10: with a valid bundle in the documented layout, the right-hand side of
\* the high-level assignment to the i-th register (1 <= i <= n) is xprs[i+2],
\* and xprs[0], xprs[1], xprs[2] are never a register's loaded value.
C10_DocumentedLayout ==
    (LDMValid /\ DocumentedLDMBundle) =>
        \A i \in 1..NumRegs :
            /\ result.hl[i].rhs = HlExpr(At(xdata.xprs, i + 2))
            /\ \A j \in 0..2 : result.hl[i].rhs # HlExpr(At(xdata.xprs, j))


(***************************************************************************)
(* Properties of invalid and short bundles                                 *)
(***************************************************************************)
Annotated == pc = "annotated"

\* C11: for every handler (LDM, CBZ, BX, UBFX, PLD), annotation on a bundle
\* whose validity flag is false returns exactly "Error value" and does not
\* raise.
C11_ErrorValue ==
    (Annotated /\ ~is_ok(xdata)) => result = Text("Error value")

\* the lift has run: it returned its lists or raised
LDMRan == pc = "done" /\ instr.opc = "LDM"

UBFXRan == pc = "done" /\ instr.opc = "UBFX"

\* C12: for LDM and UBFX, ast_prov on a bundle whose validity flag is false
\* returns empty high-level and low-level lists and does not raise.
C12_EmptyOnInvalid ==
    ((LDMRan \/ UBFXRan) /\ ~is_ok(xdata)) =>
        /\ result.status = "ok"
        /\ result.hl = <<>>
        /\ result.ll = <<>>

\* the bundle has fewer facts than the register list requires
LDMShortBundle ==
    \/ Len(xdata.vars) < NumRegs + 1
    \/ Len(xdata.xprs) < NumRegs + 3
    \/ Len(xdata.reachingdefs) < NumRegs + 1
    \/ Len(xdata.defuses) < NumRegs + 1
    \/ Len(xdata.defuseshigh) < NumRegs + 1

\* every conversion of a recovered variable or expression succeeds
NoConversionFailure == resolver.badvar = -1 /\ resolver.badxpr = -1

\* C13: the LDM lift on a bundle whose validity flag is true but which has
\* fewer facts than the register list requires does not raise, even when
\* every conversion succeeds.
C13_ShortBundleDegrades ==
    (LDMRan /\ is_ok(xdata) /\ LDMShortBundle /\ NoConversionFailure) =>
        result.status = "ok"

(***************************************************************************)
(* Properties of the CBZ condition derivation                              *)
(***************************************************************************)
\* ast_condition_prov has run: it returned its pair or raised
CondDerived == pc = "cond" /\ instr.opc = "CBZ"

\* the bundle yields two conditions: it has branch conditions, is valid
\* and carries the simplified true and false condition
TwoConditions ==
    /\ has_branch_conditions(xdata)
    /\ is_ok(xdata)
    /\ Len(xdata.xprs) >= 5

\* xprs[3]: true condition (simplified)
TrueCondition == Fact("xpr", 3)

\* xprs[4]: false condition (simplified)
FalseCondition == Fact("xpr", 4)

Zero == <<"const", 0>>

OperandIsZero == <<"eq", <<"lvalexpr", instr.base>>, Zero>>

OperandIsNotZero == <<"ne", <<"lvalexpr", instr.base>>, Zero>>

\* C14: with exactly two conditions, reverse = false gives the low-level
\* condition (operand eq 0) and the high-level condition built from the true
\* condition; reverse = true gives (operand ne 0) and the high-level
\* condition built from the false condition.
C14_ConditionPolarity ==
    (CondDerived /\ TwoConditions /\ result.status = "ok") =>
        IF result.reverse
        THEN /\ result.ll_cond = OperandIsNotZero
             /\ result.hl_cond = <<"hl_expr", FalseCondition>>
        ELSE /\ result.ll_cond = OperandIsZero
             /\ result.hl_cond = <<"hl_expr", TrueCondition>>

C14_Witness ==
    /\ CondDerived
    /\ TwoConditions
    /\ result.status = "ok"
    /\ ~result.reverse
    /\ result.hl_cond = <<"hl_expr", TrueCondition>>
    /\ Len(astree.condition_address) = 1

\* C15: when the bundle has no branch conditions or is invalid, the result
\* is (zero, zero) for either value of reverse, an error is logged and
\* nothing is raised.
C15_ZeroFallback ==
    (CondDerived /\ (~has_branch_conditions(xdata) \/ ~is_ok(xdata))) =>
        /\ result.status = "ok"
        /\ result.hl_cond = Zero
        /\ result.ll_cond = Zero
        /\ \E k \in 1..Len(result.log) : result.log[k] = <<"error", iaddr>>
        /\ astree = NewASTree

C15_Witness ==
    /\ CondDerived
    /\ has_branch_conditions(xdata)
    /\ ~is_ok(xdata)
    /\ Len(xdata.xprs) = 6
    /\ result.reverse
    /\ result.hl_cond = Zero
    /\ result.ll_cond = Zero

\* ft_conditions has returned
FtReturned == pc = "ftconds" /\ result.status = "ok"

\* the original statement of C16: ft_conditions returns no conditions or
\* exactly two, ordered (true condition, false condition).
C16_TrueFalseOrder ==
    FtReturned =>
        /\ Len(result.conds) \in {0, 2}
        /\ (Len(result.conds) = 2 /\ instr.opc = "CBZ") =>
               result.conds = <<TrueCondition, FalseCondition>>

\* C16: ft_conditions of CBZ and BX returns no conditions or exactly two;
\* CBZ orders them (false condition, true condition), and BX returns
\* xprs[1] followed by xprs[0].
C16_FalseTrueOrder ==
    FtReturned =>
        /\ Len(result.conds) \in {0, 2}
        /\ Len(result.conds) = 2 =>
               /\ has_branch_conditions(xdata)
               /\ IF instr.opc = "CBZ"
                  THEN result.conds = <<FalseCondition, TrueCondition>>
                  ELSE result.conds = <<Fact("xpr", 1), Fact("xpr", 0)>>

C16_Witness ==
    /\ FtReturned
    /\ instr.opc = "CBZ"
    /\ result.conds = <<FalseCondition, TrueCondition>>

(***************************************************************************)
(* Properties of failing and multiple conversions                          *)
(***************************************************************************)
\* the bundle carries every fact the UBFX lift reads
UBFXFactsPresent ==
    /\ Len(xdata.vars) >= 1
    /\ Len(xdata.xprs) >= 2
    /\ Len(xdata.reachingdefs) >= 1
    /\ Len(xdata.defuses) >= 1
    /\ Len(xdata.defuseshigh) >= 1

\* C17: the UBFX lift returns exactly one high-level and one low-level
\* assignment or raises; it returns the pair when the resolver yields one
\* lvalue and one rvalue, and raises CHBError when either yields several.
C17_OnePairOrRaise ==
    UBFXRan =>
        /\ result.status \in {"ok", "CHBError", "IndexError"}
        /\ result.status = "ok" => Len(result.hl) = 1 /\ Len(result.ll) = 1
        /\ result.status # "ok" => astree = NewASTree
        /\ (UBFXFactsPresent /\ NoConversionFailure) =>
               /\ (resolver.nlhs = 1 /\ resolver.nrhs = 1) =>
                      result.status = "ok"
               /\ (resolver.nlhs > 1 \/ resolver.nrhs > 1) =>
                      result.status = "CHBError"

C17_Witness ==
    /\ UBFXRan
    /\ UBFXFactsPresent
    /\ NoConversionFailure
    /\ resolver.nlhs = 1
    /\ resolver.nrhs = 2
    /\ result.status = "CHBError"

\* the conversion of the recovered right-hand side xprs[1] fails, that of
\* the recovered variable does not
RhsConversionFails ==
    /\ Len(xdata.vars) >= 1
    /\ Len(xdata.xprs) >= 2
    /\ resolver.badxpr = 1
    /\ resolver.badvar = -1

\* C18: when the conversion of the recovered right-hand side fails in the
\* UBFX lift, the failure is logged with the address, the low-level rvalue
\* is the single high-level rvalue, and the pair is emitted as usual.
C18_RhsFallback ==
    (UBFXRan /\ RhsConversionFails) =>
        /\ result.log = << <<"error", iaddr>> >>
        /\ (resolver.nlhs = 1 /\ UBFXFactsPresent) =>
               /\ result.status = "ok"
               /\ Len(result.hl) = 1
               /\ Len(result.ll) = 1
               /\ result.hl[1].rhs = <<"lvalexpr", instr.base>>
               /\ result.hl[1].lhs = <<"hl_lval", Fact("var", 0)>>
               /\ result.ll[1].rhs = <<"lvalexpr", instr.base>>
               /\ result.ll[1].lhs = <<"lval", instr.rd>>
               /\ astree.instr_mapping =
                      << <<result.hl[1].instrid, result.ll[1].instrid>> >>

C18_Witness ==
    /\ UBFXRan
    /\ RhsConversionFails
    /\ UBFXFactsPresent
    /\ resolver.nlhs = 1
    /\ resolver.nrhs = 2
    /\ result.status = "ok"
    /\ result.hl[1].rhs = <<"lvalexpr", instr.base>>

\* the bundle and the resolver leave a failing conversion as the only way
\* for the handler to raise
OnlyConversionCanFail ==
    \/ LDMRan /\ is_ok(xdata) /\ DocumentedLDMBundle
    \/ UBFXRan /\ UBFXFactsPresent /\ resolver.nlhs = 1 /\ resolver.nrhs = 1
    \/ CondDerived /\ TwoConditions /\ Len(xdata.reachingdefs) >= 1

\* C19: in the LDM lift, the CBZ condition derivation and the UBFX lift, a
\* failing conversion of a recovered variable or expression does not escape:
\* the handler still returns a result.
C19_NoEscape ==
    OnlyConversionCanFail => result.status = "ok"

(***************************************************************************)
(* Properties of the BX lift                                               *)
(***************************************************************************)
BXRan == pc = "done" /\ instr.opc = "BX"

\* the lift went through the generic call-lifting path
Delegated ==
    /\ Len(result.ll) = 1
    /\ "call" \in DOMAIN result.ll[1]

\* C20: the BX lift delegates to the generic call-lifting path whenever the
\* bundle carries the call tag (is_call), and takes the no-op path only when
\* it does not.
C20_CallDelegation ==
    BXRan => (is_call(xdata) <=> Delegated)

\* C21: a BX that is not lifted as a call, a branch to LR included, returns
\* an empty high-level list and a low-level list of exactly one no-op
\* instruction whose address is recorded; nothing else is recorded.
C21_NopOnly ==
    (BXRan /\ ~Delegated) =>
        /\ result.status = "ok"
        /\ result.hl = <<>>
        /\ Len(result.ll) = 1
        /\ DOMAIN result.ll[1] = {"instrid", "nop", "iaddr"}
        /\ result.ll[1].nop = "BX"
        /\ astree.instr_address = << <<result.ll[1].instrid, <<iaddr>>>> >>
        /\ astree.instr_mapping = <<>>
        /\ astree.expr_mapping = <<>>
        /\ astree.lval_mapping = <<>>

C21_Witness ==
    /\ BXRan
    /\ instr.base = LR
    /\ has_return_xpr(xdata)
    /\ is_ok(xdata)
    /\ result.hl = <<>>
    /\ Len(result.ll) = 1
    /\ result.ll[1].nop = "BX"

\* a call accessor of BX has returned or raised
Accessed == pc \in {"call_target", "argument_count", "arguments"}

\* what the accessor returns for a call: the target, the argument count
\* (0 when unknown), the first argument-count expressions
ExpectedValue ==
    LET n == IF xdata.argcount = -1 THEN 0 ELSE xdata.argcount
    IN  IF pc = "call_target" THEN <<"target", xdata.call_target>>
        ELSE IF pc = "argument_count" THEN n
        ELSE SubSeq(xdata.xprs, 1, IF n < Len(xdata.xprs) THEN n
                                   ELSE Len(xdata.xprs))

\* C22: on a BX that is not a call, call_target, argument_count and
\* arguments raise CHBError; on a BX that is a call they return the target,
\* the argument count and the first argument-count expressions.
C22_CallAccessors ==
    Accessed =>
        IF is_call(xdata)
        THEN result.status = "ok" /\ result.value = ExpectedValue
        ELSE result = ValueRaised("CHBError")

(***************************************************************************)
(* Construction of opcode instances from raw records                       *)
(***************************************************************************)
\* largest number of tags and of arguments of a raw record
MaxTags == 3

MaxArgs == 5

\* the tags under which the handlers are registered
Opcodes == {"BX", "CBZ", "LDM", "PLD", "PLDW", "UBFX"}

\* a raw record with nt tags and na arguments, the first argument being a0
RawRecord(opc, nt, na, a0) ==
    [opc  |-> opc,
     tags |-> [k \in 1..nt |-> "t"],
     args |-> [k \in 1..na |-> IF k = 1 THEN a0 ELSE 10 + k]]

\* an arity table in which PLD / PLDW expect two arguments
expected_arity_short(opc) ==
    CASE opc = "BX"   -> <<2, 1>>
      [] opc = "CBZ"  -> <<1, 2>>
      [] opc = "LDM"  -> <<2, 4>>
      [] opc = "UBFX" -> <<2, 2>>
      [] OTHER        -> <<2, 2>>

\* the tag count and argument count each constructor passes to check_key
expected_arity(opc) ==
    CASE opc = "BX"   -> <<2, 1>>
      [] opc = "CBZ"  -> <<1, 2>>
      [] opc = "LDM"  -> <<2, 4>>
      [] opc = "UBFX" -> <<2, 2>>
      [] OTHER        -> <<2, 3>>

\* the name each constructor passes to check_key
opcode_name(opc) ==
    CASE opc = "BX"   -> "BranchExchange"
      [] opc = "CBZ"  -> "CompareBranchZero"
      [] opc = "LDM"  -> "LoadMultipleIncrementAfter"
      [] opc = "UBFX" -> "UnsignedBitFieldExtract"
      [] OTHER        -> "PreloadData"

\* check_key(taglen, arglen, name): a decode error naming the opcode, the
\* encountered and the expected arity when either count differs
check_key(rec, taglen, arglen, name) ==
    IF Len(rec.tags) # taglen \/ Len(rec.args) # arglen
    THEN [status   |-> "DecodeError",
          name     |-> name,
          found    |-> <<Len(rec.tags), Len(rec.args)>>,
          expected |-> <<taglen, arglen>>]
    ELSE [status |-> "ok"]

\* the __init__ of the handler registered for rec.opc
construct(rec) ==
    check_key(rec, expected_arity(rec.opc)[1], expected_arity(rec.opc)[2],
              opcode_name(rec.opc))

\* the outcome of an accessor: the argument positions it read, or an
\* IndexError at the first position outside the argument list
Reads(args, positions) ==
    IF \A k \in 1..Len(positions) : InRange(args, positions[k])
    THEN [status |-> "ok", accessor |-> "", reads |-> positions]
    ELSE [status |-> "IndexError", accessor |-> "", reads |-> positions]

\* the positions 0 .. len(args) - 1, as visited by "for i in self.args"
AllPositions(args) == [k \in 1..Len(args) |-> k - 1]

\* the positions visited by "for i in self.args[1:]"
TailPositions(args) == [k \in 1..(Len(args) - 1) |-> k]

\* the operands property of each handler
operands(rec) ==
    CASE rec.opc = "BX"  -> Reads(rec.args, <<0>>)
      [] rec.opc = "LDM" -> Reads(rec.args, TailPositions(rec.args))
      [] rec.opc \in {"PLD", "PLDW"} -> Reads(rec.args, <<2>>)
      [] OTHER -> Reads(rec.args, AllPositions(rec.args))

\* the opargs property of CBZ, LDM and UBFX
opargs(rec) ==
    CASE rec.opc = "LDM" -> Reads(rec.args, TailPositions(rec.args))
      [] OTHER -> Reads(rec.args, AllPositions(rec.args))

\* ARMLoadMultipleIncrementAfter.writeback
writeback(rec) == Reads(rec.args, <<0>>)

\* ARMLoadMultipleIncrementAfter.operandstring
operandstring(rec) == Reads(rec.args, <<1, 0, 2>>)

InitDecode ==
    /\ TableFresh
    /\ \E opc \in Opcodes, nt \in 0..MaxTags, na \in 0..MaxArgs,
          a0 \in {0, 1} :
           instr = RawRecord(opc, nt, na, a0)
    /\ xdata = <<>>
    /\ resolver = <<>>
    /\ astree = <<>>
    /\ result = <<>>
    /\ pc = "raw"

Construct ==
    /\ pc = "raw"
    /\ result' = construct(instr)
    /\ pc' = IF construct(instr).status = "ok" THEN "constructed"
             ELSE "rejected"
    /\ UNCHANGED <<instr, xdata, resolver, astree>>
    /\ UNCHANGED tvars

\* an accessor is read on a constructed instance
Read(r, name) ==
    /\ pc = "constructed"
    /\ result' = [r EXCEPT !.accessor = name]
    /\ pc' = "read"
    /\ UNCHANGED <<instr, xdata, resolver, astree>>
    /\ UNCHANGED tvars

ReadOperands == Read(operands(instr), "operands")

ReadOpargs ==
    /\ instr.opc \in {"CBZ", "LDM", "UBFX"}
    /\ Read(opargs(instr), "opargs")

ReadWriteback ==
    /\ instr.opc = "LDM"
    /\ Read(writeback(instr), "writeback")

ReadOperandString ==
    /\ instr.opc = "LDM"
    /\ Read(operandstring(instr), "operandstring")

NextDecode ==
    \/ Construct
    \/ ReadOperands
    \/ ReadOpargs
    \/ ReadWriteback
    \/ ReadOperandString

SpecDecode == InitDecode /\ [][NextDecode]_vars

\* the arity of each handler as the contract states it
ContractArity ==
    [o \in Opcodes |->
        CASE o = "BX"   -> <<2, 1>>
          [] o = "CBZ"  -> <<1, 2>>
          [] o = "LDM"  -> <<2, 4>>
          [] o = "UBFX" -> <<2, 2>>
          [] OTHER      -> <<2, 3>>]

RecordArity == <<Len(instr.tags), Len(instr.args)>>

\* C23: construction fails with a decode error naming the opcode whenever
\* the tag count or argument count of the record differs from the arity of
\* the handler, and after a successful construction every argument position
\* read by operands, opargs, writeback and operandstring is within the
\* argument list.
C23_ArityContract ==
    /\ pc = "rejected" =>
           /\ result.status = "DecodeError"
           /\ result.name = opcode_name(instr.opc)
           /\ result.found = RecordArity
    /\ pc \in {"rejected", "constructed", "read"} =>
           (pc = "rejected" <=> RecordArity # ContractArity[instr.opc])
    /\ pc = "read" =>
           /\ result.status = "ok"
           /\ \A k \in 1..Len(result.reads) :
                  result.reads[k] \in 0..(Len(instr.args) - 1)

C23_Witness ==
    /\ pc = "read"
    /\ instr.opc = "PLDW"
    /\ result.accessor = "operands"
    /\ result.reads = <<2>>
    /\ Len(instr.args) = 3

(***************************************************************************)
(* Two serializers, used by independent lifts                              *)
(***************************************************************************)
Serializers == {1, 2}

\* ASTSerializer.__init__ for each serializer
NewSerializers == [s \in Serializers |-> NewDictionary]

\* ASTSerializer.table
table_of(tabs, s) == tabs[s]

\* a single dictionary object behind every serializer
store_table_shared(tabs, s, t) == [o \in DOMAIN tabs |-> t]

\* the effect of a call on serializer s: its own dictionary is mutated
store_table(tabs, s, t) == [tabs EXCEPT ![s] = t]

\* tag lists of the nodes interned by the two lifts
TwoTagLists == { <<"varinfo", "a">>, <<"varinfo", "b">> }

InitTwo ==
    /\ table = NewDictionary
    /\ ret = 0
    /\ op = "init"
    /\ call = <<>>
    /\ calls = {}
    /\ order = <<>>
    /\ snapshot = <<>>
    /\ tables = NewSerializers
    /\ LiftIdle

\* one call of add on serializer s
AddTo(s, tags, args, descr) ==
    LET r == SerializerAdd(table_of(tables, s), tags, args, descr)
    IN  /\ r.table.next <= MaxNodes + 1
        /\ tables' = store_table(tables, s, r.table)
        /\ ret' = r.ret
        /\ op' = "add"
        /\ call' = <<s, tags, args, descr>>
        /\ UNCHANGED <<table, calls, order, snapshot>>
        /\ UNCHANGED lvars

\* one call of records on serializer s
RecordsOf(s) ==
    LET r == DictRecords(table_of(tables, s))
    IN  /\ tables' = store_table(tables, s, r.table)
        /\ snapshot' = r.ret
        /\ op' = "records"
        /\ call' = <<s>>
        /\ UNCHANGED <<table, ret, calls, order>>
        /\ UNCHANGED lvars

NextTwo ==
    \/ \E s \in Serializers, tags \in TwoTagLists, descr \in Descrs :
           AddTo(s, tags, <<>>, descr)
    \/ \E s \in Serializers : RecordsOf(s)

SpecTwo == InitTwo /\ [][NextTwo]_vars

\* the identities of a dictionary are 1, 2, ... in allocation order
OwnIdentities(t) ==
    /\ DOMAIN t.indextable = 1..(t.next - 1)
    /\ {t.keytable[k] : k \in DOMAIN t.keytable} = 1..(t.next - 1)

C24_State == \A s \in Serializers : OwnIdentities(tables[s])

\* a call on one serializer leaves the dictionary of every other one alone,
\* and a new identity is the next free one of the serializer called
C24_Step ==
    /\ \A o \in Serializers : call'[1] # o => tables'[o] = tables[o]
    /\ op' = "add" =>
           LET s == call'[1]
           IN  \/ tables'[s] = tables[s]
               \/ /\ ret' = tables[s].next
                  /\ tables'[s].next = tables[s].next + 1

\* C24: the interning table is instance-scoped: calls on one serializer
\* leave the key-to-identity map, the records and the next-free counter of
\* the other unchanged, and each serializer assigns 1, 2, ... on its own.
C24_InstanceScoped == []C24_State /\ [][C24_Step]_vars

C24_Witness ==
    /\ op = "add"
    /\ call[1] = 2
    /\ ret = 1
    /\ tables[1].next = 3
    /\ tables[2].next = 2

(***************************************************************************)
(* Further properties of the LDM and BX handlers                           *)
(***************************************************************************)
BaseInList == \E k \in 1..NumRegs : instr.registers[k] = instr.base

\* C25: the LDM lift emits the base update only when writeback is set and
\* the base register is not in the register list; with the base register in
\* the list no base update is emitted at either level.
C25_BaseInList ==
    (LDMValid /\ DocumentedVars) =>
        IF instr.writeback /\ ~BaseInList
        THEN /\ BaseUpdates(result.ll) = {NumRegs + 1}
             /\ HlBaseUpdates(result.hl) = {NumRegs + 1}
        ELSE /\ BaseUpdates(result.ll) = {}
             /\ HlBaseUpdates(result.hl) = {}

BXAnnotated == pc = "annotated" /\ instr.opc = "BX"

\* C26: BX annotation on a non-call instruction is "return <value>" for a
\* valid bundle with a return expression, "goto <target>" for a valid bundle
\* without one, and "Error value" for an invalid bundle.
C26_ThreeOutcomes ==
    (BXAnnotated /\ ~is_call_instruction(xdata) /\ Len(xdata.xprs) >= 2) =>
        /\ (is_ok(xdata) /\ has_return_xpr(xdata)) =>
               result = Text("return " \o str(Fact("retxpr", 0)))
        /\ (is_ok(xdata) /\ ~has_return_xpr(xdata)) =>
               result = Text("goto " \o str(Fact("xpr", 1)))
        /\ ~is_ok(xdata) => result = Text("Error value")

\* C27: the two call classifications of BX agree on every bundle: is_call
\* is true exactly when is_call_instruction is, so that whenever is_call
\* reports a call the accessors return a value.
C27_ClassificationsAgree ==
    instr.opc = "BX" =>
        /\ is_call(xdata) <=> is_call_instruction(xdata)
        /\ (Accessed /\ is_call(xdata)) => result.status = "ok"

LDMAnnotated == pc = "annotated" /\ instr.opc = "LDM"

\* the i-th (1-based) assignment as "<lhs variable> := <rhs expression>"
LoadText(i) == str(lhsvars(xdata)[i]) \o " := " \o str(rhsexprs(xdata)[i])

\* C28: the LDM annotation renders the load of the i-th register as
\* "<i-th lhs variable> := <i-th rhs expression>", the assignments joined
\* by "; " in register order.
C28_AnnotationPairs ==
    (LDMAnnotated /\ DocumentedLDMBundle /\ ~instr.writeback) =>
        result = Text(JoinSep("; ", [i \in 1..NumRegs |-> LoadText(i)]))

(***************************************************************************)
(* Indexing of composite nodes                                             *)
(***************************************************************************)
\* largest number of records interned by the indexing runs
MaxIndexed == 8

\* AST nodes: variable, lvalue (host, offset), lvalue expression, binary
\* expression, assignment (instrid, lhs, rhs), block (stmtid, statements)
Var(name) == <<"var", name>>

NoOffset == <<"no-offset">>

Lval(host) == <<"lval", host, NoOffset>>

LvalExpr(lval) == <<"lval-expr", lval>>

BinaryOp(o, e1, e2) == <<"binary-op", o, e1, e2>>

Assign(instrid, lhs, rhs) == <<"assign", instrid, lhs, rhs>>

Block(stmtid, stmts) == <<"block", stmtid, stmts>>

\* the dict built by an index method, after add has set node["args"];
\* name stands for the second field of the dict, if any
IndexedNode(tags, args) ==
    [tag |-> tags[1], name |-> IF Len(tags) >= 2 THEN tags[2] ELSE "",
     args |-> args, descr |-> "", id |-> 0]

\* self.add(tags, args, node)
add_node(t, tags, args) == DictAdd(t, get_key(tags, args), IndexedNode(tags, args))

\* a child reference that names the next free identity instead of the
\* identity returned for the child
child_id_unindexed(r) == r.table.next

\* child.index(self): the identity returned for the child
child_id(r) == r.ret

RECURSIVE index(_, _)
RECURSIVE index_stmts(_, _, _)
\* [s.index(self) for s in stmt.stmts], appended to args
index_stmts(t, stmts, args) ==
    IF Len(stmts) = 0 THEN [table |-> t, ret |-> args]
    ELSE LET r == index(t, Head(stmts))
         IN  index_stmts(r.table, Tail(stmts), Append(args, child_id(r)))

\* node.index(self): index_variable, index_no_offset, index_lval,
\* index_lval_expression, index_binary_expression, index_assign_instr,
\* index_block_stmt
index(t, n) ==
    CASE n[1] = "var" -> add_node(t, <<n[1], n[2]>>, <<>>)
      [] n[1] = "no-offset" -> add_node(t, <<n[1]>>, <<>>)
      [] n[1] = "lval" ->
             LET r1 == index(t, n[2])
                 r2 == index(r1.table, n[3])
             IN  add_node(r2.table, <<n[1]>>, <<child_id(r1), child_id(r2)>>)
      [] n[1] = "lval-expr" ->
             LET r1 == index(t, n[2])
             IN  add_node(r1.table, <<n[1]>>, <<child_id(r1)>>)
      [] n[1] = "binary-op" ->
             LET r1 == index(t, n[3])
                 r2 == index(r1.table, n[4])
             IN  add_node(r2.table, <<n[1], n[2]>>,
                          <<child_id(r1), child_id(r2)>>)
      [] n[1] = "assign" ->
             LET r1 == index(t, n[3])
                 r2 == index(r1.table, n[4])
             IN  add_node(r2.table, <<n[1]>>,
                          <<n[2], child_id(r1), child_id(r2)>>)
      [] n[1] = "block" ->
             LET r == index_stmts(t, n[3], <<n[2]>>)
             IN  add_node(r.table, <<n[1]>>, r.ret)

\* the nodes handed to the serializer
VarNames == {"a", "b"}

IndexExprs ==
    {LvalExpr(Lval(Var(v))) : v \in VarNames}
        \cup {BinaryOp("plus", LvalExpr(Lval(Var("a"))),
                       LvalExpr(Lval(Var(v)))) : v \in VarNames}

IndexInstrs == {Assign(9, Lval(Var(v)), e) : v \in VarNames, e \in IndexExprs}

IndexBlocks ==
    {Block(7, <<i>>) : i \in IndexInstrs}
        \cup {Block(7, <<Assign(9, Lval(Var("b")), LvalExpr(Lval(Var("a")))),
                         i>>) : i \in IndexInstrs}

IndexNodes == IndexExprs \cup IndexInstrs \cup IndexBlocks

InitIndex == TableFresh /\ LiftIdle

\* one call of node.index(serializer)
Index(n) ==
    LET r == index(table, n)
    IN  /\ r.table.next <= MaxIndexed + 1
        /\ table' = r.table
        /\ ret' = r.ret
        /\ op' = "index"
        /\ call' = n
        /\ UNCHANGED <<calls, order, snapshot, tables>>
        /\ UNCHANGED lvars

NextIndex == \E n \in IndexNodes : Index(n)

SpecIndex == InitIndex /\ [][NextIndex]_vars

\* the positions of the child identities in the args of a record
ChildPositions(rec) ==
    CASE rec.tag = "lval"      -> {1, 2}
      [] rec.tag = "lval-expr" -> {1}
      [] rec.tag = "binary-op" -> {1, 2}
      [] rec.tag = "assign"    -> {2, 3}
      [] rec.tag = "block"     -> 2..Len(rec.args)
      [] OTHER                 -> {}

\* C29: children are interned before parents: every child identity in the
\* args of a record is strictly smaller than the identity of the record and
\* refers to a record present in the table.
C29_ChildrenFirst ==
    \A id \in DOMAIN table.indextable :
        \A p \in ChildPositions(table.indextable[id]) :
            /\ table.indextable[id].args[p] \in DOMAIN table.indextable
            /\ table.indextable[id].args[p] < id

C29_Witness ==
    /\ op = "index"
    /\ call[1] = "block"
    /\ ret = table.next - 1
    /\ table.indextable[ret].tag = "block"
    /\ Len(table.indextable[ret].args) = 3
    /\ \E id \in DOMAIN table.indextable :
           /\ table.indextable[id].tag = "assign"
           /\ table.indextable[id].args[1] > id


(***************************************************************************)
(* Provenance recorded by the CBZ condition derivation                     *)
(***************************************************************************)
\* the derivation returned the zero placeholder pair
ZeroFallback ==
    /\ CondDerived
    /\ result.status = "ok"
    /\ result.hl_cond = Zero
    /\ result.ll_cond = Zero

\* the derivation returned a (high-level, low-level) condition pair
ConditionPair == CondDerived /\ result.status = "ok" /\ TwoConditions

\* the records add_expr_mapping, add_expr_reachingdefs (twice) and
\* add_condition_address leave for the returned pair
PairProvenance ==
    /\ astree.expr_mapping = << <<result.hl_cond, result.ll_cond>> >>
    /\ astree.expr_reachingdefs =
           << <<result.hl_cond, xdata.reachingdefs>>,
              << <<"lvalexpr", instr.base>>, <<Fact("rdef", 0)>> >> >>
    /\ astree.condition_address = << <<result.ll_cond, <<iaddr>> >> >>

\* C30: provenance is recorded only on the success path. When two conditions
\* are available and the pair is returned, the high-level condition is mapped
\* to the low-level condition, all reaching definitions are attached to the
\* high-level condition, the first reaching definition to the low-level
\* operand and the instruction address to the low-level condition; on the
\* zero placeholder path no expression mapping, reaching definition or
\* condition address is recorded, and nothing else of the tree changes on
\* either path.
C30_ProvenanceFrame ==
    /\ ConditionPair =>
           /\ PairProvenance
           /\ astree = [NewASTree EXCEPT
                           !.expr_mapping = astree.expr_mapping,
                           !.expr_reachingdefs = astree.expr_reachingdefs,
                           !.condition_address = astree.condition_address]
    /\ ZeroFallback => astree = NewASTree
    /\ (CondDerived /\ ~TwoConditions) => astree = NewASTree

C30_Witness ==
    /\ ConditionPair
    /\ Len(xdata.reachingdefs) = 2
    /\ result.reverse
    /\ Len(astree.expr_reachingdefs) = 2
    /\ astree.expr_reachingdefs[2][2] = <<Fact("rdef", 0)>>
    /\ astree.expr_mapping # <<>>

====
